---------------------------- MODULE Spec2Model ----------------------------
(***************************************************************************)
(* Model of the melodic placement engine of infinite-etudes                *)
(* (all_triples.py): the interval model, the pitch mapper, the octave      *)
(* placement solver (computeOctaveOffset, computeTripleOffset, constrain2) *)
(* and the repetition offset calculator.                                   *)
(*                                                                         *)
(* Four specifications share the pure operators:                           *)
(*   Spec    - constrain2 run over a list of Triples, one action per       *)
(*             program step, one action per trial of computeTripleOffset;  *)
(*   WalkSpec - constrain2 over a list of any length, the next Triple      *)
(*             drawn when the for loop reaches it;                         *)
(*   OctSpec - the while loop of computeOctaveOffset, one action per       *)
(*             iteration, with the fairness of a running thread;           *)
(*   FnSpec  - the pure functions applied to inputs drawn from bounded     *)
(*             sets.                                                       *)
(***************************************************************************)
EXTENDS Integers, Sequences, FiniteSets, TLC

VARIABLES
    mlo, mhi,        \* the pitch window (midi low / high limit)
    keynum,          \* key number 0..11
    harmonic,        \* harmonic-minor flag
    triples,         \* the list of Triple objects handed to constrain2
    idx,             \* position of the for loop of constrain2 in triples
    m, d,            \* constrain2's continuity state (prior pitch, degree)
    pc,              \* control position
    m0, d0,          \* arguments of the running computeTripleOffset call
    tries,           \* computeTripleOffset: trial counter
    trialoffset,     \* computeTripleOffset: trial octave offset
    ret,             \* value returned by the last call
    entryOffset,     \* t.offset at entry of the running computeTripleOffset
    calls,           \* log of constrain2's calls: <<position, m0, d0>> each
    pass,            \* which etude() pass of mkEtudes is running
    pitch,           \* computeOctaveOffset: argument m
    offset12,        \* computeOctaveOffset: local offset12
    call             \* FnSpec: the function applied and its arguments

vars == <<mlo, mhi, keynum, harmonic, triples, idx, m, d, pc, m0, d0, tries,
          trialoffset, ret, entryOffset, calls, pass, pitch, offset12, call>>

----------------------------------------------------------------------------
(* Bounds of the model *)

\* longest Triple list handed to constrain2
MaxTriples == 2
\* widest window of OctSpec is MaxWidth semitones (mhi - mlo)
MaxWidth == 25
\* OctSpec draws pitches from -MaxOutside .. 127 + MaxOutside
MaxOutside == 24
\* FnSpec draws excursion values from -MaxExcursion .. MaxExcursion
MaxExcursion == 16

----------------------------------------------------------------------------
(* Program constants *)

\* the python value None (returned for the pitch and degree on failure)
None == -999

\* exclusive upper limit of a valid midi pitch
MidiLimit == 128

\* scale degrees
Degrees == 1..7

\* LUT for diatonic interval to midi interval
d2m(deg) ==
    CASE deg = 1 -> 0
      [] deg = 2 -> 2
      [] deg = 3 -> 4
      [] deg = 4 -> 5
      [] deg = 5 -> 7
      [] deg = 6 -> 9
      [] deg = 7 -> 11

Abs(x) == IF x < 0 THEN -x ELSE x

----------------------------------------------------------------------------
(* Interval model *)

intervalAsc(p1, p2) ==
    LET a == p1 - 1
        b == p2 - 1
    IN  1 + ((b - a) % 7)

\* faulty variant: ascents up to a 5th kept
intervalReduced_wide(p1, p2) ==
    LET i == intervalAsc(p1, p2)
    IN  IF i <= 5 THEN i ELSE -(9 - i)

intervalReduced(p1, p2) ==
    LET i == intervalAsc(p1, p2)
    IN  IF i <= 4 THEN i ELSE -(9 - i)

----------------------------------------------------------------------------
(* Excursion calculator *)

RECURSIVE excursionWalk(_, _, _)
\* the for loop of excursion(): x after the hops starting at position i
excursionWalk(pitches, i, x) ==
    IF i >= Len(pitches) THEN x
    ELSE LET ir == intervalReduced(pitches[i], pitches[i + 1])
         IN  excursionWalk(pitches, i + 1,
                           IF ir > 0 THEN x + (ir - 1) ELSE x + (ir + 1))

excursion(pitches) ==
    LET x == excursionWalk(pitches, 1, 0)
    IN  IF x >= 0 THEN x + 1 ELSE x - 1

Triple(pitchnums) ==
    [nums |-> pitchnums, excursion |-> excursion(pitchnums), offset |-> 0]

\* permutations((1,2,3,4,5,6,7), 3), as shuffledTriples enumerates them
AllNums ==
    {<<a, b, c>> : a \in Degrees, b \in Degrees, c \in Degrees} \
    {n \in {<<a, b, c>> : a \in Degrees, b \in Degrees, c \in Degrees} :
        n[1] = n[2] \/ n[2] = n[3] \/ n[1] = n[3]}

----------------------------------------------------------------------------
(* Pitch mapper *)

\* LUT by keynum: (degree, midi)
cdegreemidi(k) ==
    CASE k = 0 -> <<1, 60>>
      [] k = 1 -> <<7, 60>>
      [] k = 2 -> <<7, 61>>
      [] k = 3 -> <<6, 60>>
      [] k = 4 -> <<6, 61>>
      [] k = 5 -> <<5, 60>>
      [] k = 6 -> <<4, 59>>
      [] k = 7 -> <<4, 60>>
      [] k = 8 -> <<3, 60>>
      [] k = 9 -> <<3, 61>>
      [] k = 10 -> <<2, 60>>
      [] k = 11 -> <<2, 61>>

\* returns <<m0, d0>>
midiFirst(k, harm) ==
    LET dd == cdegreemidi(k)[1]
        mm == cdegreemidi(k)[2]
    IN  IF k = 5 /\ harm THEN <<mm + 1, dd>> ELSE <<mm, dd>>

\* faulty variant: the octave wrap of the two crossing branches left out
midiNext_nowrap(pm, pd, nd, harm) ==
    IF pd = nd THEN pm
    ELSE LET extra == IF harm THEN (IF pd = 5 THEN -1
                                    ELSE IF nd = 5 THEN 1 ELSE 0)
                      ELSE 0
         IN  pm + d2m(nd) - d2m(pd) + extra

midiNext(pm, pd, nd, harm) ==
    IF pd = nd THEN pm
    ELSE LET ir == intervalReduced(pd, nd)
             extra == IF harm THEN (IF pd = 5 THEN -1
                                    ELSE IF nd = 5 THEN 1 ELSE 0)
                      ELSE 0
         IN  CASE ir >= 1 /\ nd > pd -> pm + d2m(nd) - d2m(pd) + extra
               [] ir >= 1 /\ nd < pd -> pm + 12 + d2m(nd) - d2m(pd) + extra
               [] ir < 1 /\ nd > pd -> pm - 12 + d2m(nd) - d2m(pd) + extra
               [] ir < 1 /\ nd < pd -> pm + d2m(nd) - d2m(pd) + extra

\* the first for loop of computeTripleOffset: the three chained pitches
midinums(pm, pd, nums, harm) ==
    LET p1 == midiNext(pm, pd, nums[1], harm)
        p2 == midiNext(p1, nums[1], nums[2], harm)
        p3 == midiNext(p2, nums[2], nums[3], harm)
    IN  <<p1, p2, p3>>

----------------------------------------------------------------------------
(* Repetition offset calculator and rendering of a line *)

\* faulty variant: the whole octaves of the excursion only
repetitionOffset_plain(xcursion) ==
    IF xcursion = 0 THEN 0
    ELSE IF xcursion > 0
         THEN -(xcursion \div 8)
         ELSE (-xcursion) \div 8

repetitionOffset(xcursion) ==
    IF xcursion = 0 THEN 0
    ELSE IF xcursion > 0
         THEN LET n == xcursion \div 8          \* divmod(xcursion, 8)
                  r == xcursion - 8 * n
              IN  IF r + n <= 4 THEN -n ELSE n - 1
         ELSE LET n == (-xcursion) \div 8       \* divmod(xcursion, -8)
                  r == xcursion + 8 * n
              IN  IF r - n >= -4 THEN n ELSE n + 1

\* the octave marks as <<mark, count>>: "/" * abs(offset) or "^" * offset
octaveMarks(offset) ==
    IF offset <= 0 THEN <<"/", Abs(offset)>> ELSE <<"^", offset>>

\* measure(triple, offset); offset = None takes triple.offset
measure(triple, offset) ==
    LET totaloffset == IF offset = None THEN triple.offset ELSE offset
    IN  [marks |-> octaveMarks(totaloffset), nums |-> triple.nums]

\* the four measures of a line
line(triple) ==
    LET ofs == repetitionOffset(triple.excursion)
    IN  <<measure(triple, None), measure(triple, ofs),
          measure(triple, ofs), measure(triple, ofs)>>

----------------------------------------------------------------------------
(* Octave placement solver: computeOctaveOffset *)

\* mlo <= x <= mhi
InWindow(lo, x, hi) == lo <= x /\ x <= hi

\* one iteration of the while loop: the new offset12
OctaveStep(lo, o12, mm, hi) ==
    IF o12 + mm < lo THEN o12 + 12 ELSE o12 - 12

\* faulty variant: the semitone offset returned unconverted
octaves_raw(o12) == o12

\* convert to octaves: offset12 // 12
octaves(o12) == o12 \div 12

\* assert 0 <= mlo < mhi < 128
ValidRange(lo, hi) == 0 <= lo /\ lo < hi /\ hi < MidiLimit

RECURSIVE OctaveLoop(_, _, _, _, _)
\* The while loop run to its end from offset12 = o12.  The loop is
\* deterministic in offset12, so meeting a value of offset12 again means it
\* never ends: then returns is FALSE.
OctaveLoop(lo, o12, mm, hi, seen) ==
    IF InWindow(lo, o12 + mm, hi) THEN [returns |-> TRUE, value |-> octaves(o12)]
    ELSE IF o12 \in seen THEN [returns |-> FALSE, value |-> None]
    ELSE OctaveLoop(lo, OctaveStep(lo, o12, mm, hi), mm, hi, seen \cup {o12})

computeOctaveOffset(lo, mm, hi) == OctaveLoop(lo, 0, mm, hi, {})

----------------------------------------------------------------------------
(* Values of the variables a specification does not use *)

PlacementIdle ==
    /\ keynum = 0 /\ harmonic = FALSE /\ triples = <<>> /\ idx = 0
    /\ m = None /\ d = None /\ m0 = None /\ d0 = None
    /\ tries = 0 /\ trialoffset = 0 /\ entryOffset = 0 /\ pass = 0
    /\ calls = <<>>

placementVars ==
    <<keynum, harmonic, triples, idx, m, d, m0, d0, tries, trialoffset,
      entryOffset, calls, pass>>

----------------------------------------------------------------------------
(* OctSpec: computeOctaveOffset(mlo, pitch, mhi), one action per iteration *)

\* low limits of the windows tried
OctLows == {0, 36, 48, 60, 72, 120}

OctInit ==
    /\ mlo \in OctLows
    /\ mhi \in mlo..(mlo + MaxWidth)
    /\ mhi <= MidiLimit
    /\ pitch \in (-MaxOutside)..(MidiLimit - 1 + MaxOutside)
    /\ offset12 = 0
    /\ pc = "assert"
    /\ ret = None
    /\ call = <<>>
    /\ PlacementIdle

\* line 96: the precondition
OctAssert ==
    /\ pc = "assert"
    /\ pc' = IF ValidRange(mlo, mhi) THEN "while" ELSE "AssertionError"
    /\ UNCHANGED <<mlo, mhi, pitch, offset12, ret, call, placementVars>>

\* lines 98-102: the loop condition holds, one iteration
OctIterate ==
    /\ pc = "while"
    /\ ~InWindow(mlo, offset12 + pitch, mhi)
    /\ offset12' = OctaveStep(mlo, offset12, pitch, mhi)
    /\ UNCHANGED <<mlo, mhi, pitch, pc, ret, call, placementVars>>

\* line 105: the loop condition fails, return
OctReturn ==
    /\ pc = "while"
    /\ InWindow(mlo, offset12 + pitch, mhi)
    /\ ret' = octaves(offset12)
    /\ pc' = "returned"
    /\ UNCHANGED <<mlo, mhi, pitch, offset12, call, placementVars>>

OctNext == OctAssert \/ OctIterate \/ OctReturn

\* the interpreter keeps running the loop: a step that can be taken is taken
OctSpec == OctInit /\ [][OctNext]_vars /\ WF_vars(OctNext)

\* some whole number of octaves moves the pitch into the window
Fits(lo, mm, hi) == \E k \in -12..12 : InWindow(lo, mm + 12 * k, hi)

\* C3 (as stated): computeOctaveOffset always terminates: for every valid
\* window, also one narrower than an octave, and every pitch, the loop
\* reaches a value inside the window and returns.
C3_AlwaysTerminates == (pc = "while") ~> (pc = "returned")

\* What the loop does guarantee (a supporting property, next to C3): it
\* returns for every valid window with mhi - mlo >= 11 and every pitch, and
\* for a narrower window whenever some pitch + 12*k lies inside it.
TerminatesWhenFits ==
    (pc = "while" /\ (mhi - mlo >= 11 \/ Fits(mlo, pitch, mhi)))
        ~> (pc = "returned")

\* the loop has returned after two or more iterations, in the narrowest
\* window that holds every pitch class
TerminatesWhenFits_Witness ==
    /\ pc = "returned"
    /\ mhi - mlo = 11
    /\ Abs(offset12) >= 24

\* C4: the offset k returned by computeOctaveOffset puts the pitch inside the
\* window, and no offset of smaller magnitude does (k = 0 exactly when the
\* pitch is already inside).
C4_InWindowAndMinimal ==
    pc = "returned" =>
        /\ InWindow(mlo, pitch + 12 * ret, mhi)
        /\ (ret = 0) <=> InWindow(mlo, pitch, mhi)
        /\ \A j \in -12..12 :
              Abs(j) < Abs(ret) => ~InWindow(mlo, pitch + 12 * j, mhi)

\* a pitch two octaves below a window wider than an octave was moved up
C4_Witness ==
    /\ pc = "returned"
    /\ ret = 2
    /\ mhi - mlo > 12
    /\ InWindow(mlo, pitch + 36, mhi)

----------------------------------------------------------------------------
(* FnSpec: the pure functions applied to inputs drawn from bounded sets *)

\* prior pitches tried: the default window of the command line
FnPitches == 36..84

FnUnused ==
    <<mlo, mhi, pitch, offset12, placementVars>>

FnInit ==
    /\ pc = "idle"
    /\ call = <<"none">>
    /\ ret = None
    /\ mlo = 0 /\ mhi = 0 /\ pitch = 0 /\ offset12 = 0
    /\ PlacementIdle

ApplyIntervalReduced ==
    /\ pc = "idle"
    /\ \E p1 \in Degrees, p2 \in Degrees :
          /\ call' = <<"intervalReduced", p1, p2>>
          /\ ret' = intervalReduced(p1, p2)
    /\ pc' = "applied"
    /\ UNCHANGED FnUnused

ApplyMidiNext ==
    /\ pc = "idle"
    /\ \E pm \in FnPitches, pd \in Degrees, nd \in Degrees, harm \in BOOLEAN :
          /\ call' = <<"midiNext", pm, pd, nd, harm>>
          /\ ret' = midiNext(pm, pd, nd, harm)
    /\ pc' = "applied"
    /\ UNCHANGED FnUnused

ApplyRepetitionOffset ==
    /\ pc = "idle"
    /\ \E x \in (-MaxExcursion)..MaxExcursion :
          /\ call' = <<"repetitionOffset", x>>
          /\ ret' = repetitionOffset(x)
    /\ pc' = "applied"
    /\ UNCHANGED FnUnused

\* line(Triple(nums)) for a Triple fresh from its constructor
ApplyLine ==
    /\ pc = "idle"
    /\ \E nums \in AllNums :
          /\ call' = <<"line", Triple(nums)>>
          /\ ret' = line(Triple(nums))
    /\ pc' = "applied"
    /\ UNCHANGED FnUnused

\* the caller has used the result and goes on to its next call
FnDone ==
    /\ pc = "applied"
    /\ pc' = "idle"
    /\ call' = <<"none">>
    /\ ret' = None
    /\ UNCHANGED FnUnused

FnNext ==
    \/ ApplyIntervalReduced
    \/ ApplyMidiNext
    \/ ApplyRepetitionOffset
    \/ ApplyLine
    \/ FnDone

FnSpec == FnInit /\ [][FnNext]_vars

\* the octave offset a measure's marks stand for: "/" lowers, "^" raises
marksOffset(marks) == IF marks[1] = "/" THEN -marks[2] ELSE marks[2]

\* C8: for all degrees d0, d1 in 1..7 intervalReduced(d0, d1) is one of
\* -4, -3, -2, 1, 2, 3, 4 (never 0, magnitude at most 4): the ascending
\* interval i when i <= 4 and -(9 - i) otherwise.
C8_ReducedIntervalRange ==
    call[1] = "intervalReduced" =>
        LET i == 1 + (((call[3] - 1) - (call[2] - 1)) % 7)
        IN  /\ ret # 0
            /\ Abs(ret) <= 4
            /\ ret \in {-4, -3, -2, 1, 2, 3, 4}
            /\ ret = IF i <= 4 THEN i ELSE -(9 - i)

\* intervalReduced was applied to a pair whose nearer direction is down
C8_Witness ==
    /\ call[1] = "intervalReduced"
    /\ pc = "applied"
    /\ ret = -4

\* C9: midiNext moves by the nearer diatonic direction.  For distinct degrees
\* and harmonic unset the result m1 is congruent to m0 + d2m[d1] - d2m[d0]
\* modulo 12, 1 <= |m1 - m0| <= 6, and m1 > m0 exactly when
\* intervalReduced(d0, d1) > 0; with harmonic set the result differs from the
\* non-harmonic one by -1 when d0 = 5, +1 when d1 = 5, 0 otherwise; for
\* d0 = d1 the result is m0.
C9_NearerDirection ==
    call[1] = "midiNext" =>
        LET pm == call[2]
            pd == call[3]
            nd == call[4]
            harm == call[5]
        IN  IF pd = nd THEN ret = pm
            ELSE IF ~harm
            THEN /\ (ret - pm) % 12 = (d2m(nd) - d2m(pd)) % 12
                 /\ 1 <= Abs(ret - pm)
                 /\ Abs(ret - pm) <= 6
                 /\ (ret > pm) <=> (intervalReduced(pd, nd) > 0)
            ELSE ret - midiNext(pm, pd, nd, FALSE) =
                     (IF pd = 5 THEN -1 ELSE IF nd = 5 THEN 1 ELSE 0)

\* midiNext went down to a numerically higher degree (the octave-drop branch)
C9_Witness ==
    /\ call[1] = "midiNext"
    /\ pc = "applied"
    /\ call[4] > call[3]
    /\ ret < call[2]
    /\ ~call[5]

\* C10: for every excursion value x the residual x + 8*repetitionOffset(x)
\* has magnitude at most 4, no other whole number of octaves leaves a smaller
\* residual, and the result never has the sign of x.
C10_MinimalResidual ==
    call[1] = "repetitionOffset" =>
        LET x == call[2]
        IN  /\ Abs(x + 8 * ret) <= 4
            /\ \A k \in -8..8 : Abs(x + 8 * ret) <= Abs(x + 8 * k)
            /\ ~(x > 0 /\ ret > 0)
            /\ ~(x < 0 /\ ret < 0)

\* C7: repeating a Triple of pairwise distinct degrees with its repetition
\* offset does not move it: for every prior pitch and degree and either
\* harmonic setting, the pitch that follows the third note on returning to
\* the first degree, shifted by the octaves the repeated measures of line()
\* are marked with (repetitionOffset(t.excursion)), is the first pitch.
C7_RepetitionReturns ==
    call[1] = "line" =>
        \A pm \in FnPitches, pd \in Degrees, harm \in BOOLEAN :
            LET t == call[2]
                p == midinums(pm, pd, t.nums, harm)
            IN  \A k \in 2..4 :
                    /\ ret[k].marks = octaveMarks(repetitionOffset(t.excursion))
                    /\ midiNext(p[3], t.nums[3], t.nums[1], harm)
                           + 12 * marksOffset(ret[k].marks) = p[1]

\* line() rendered a Triple whose repeats must be lowered an octave
C7_Witness ==
    /\ call[1] = "line"
    /\ pc = "applied"
    /\ call[2].excursion >= 5
    /\ ret[2].marks = <<"/", 1>>

----------------------------------------------------------------------------
(* Octave placement solver: computeTripleOffset *)

\* lines 131-133: the results of the three computeOctaveOffset calls of a trial
trialOffsets(ps, lo, hi, trial) ==
    [i \in 1..3 |-> computeOctaveOffset(lo, ps[i] + (12 * trial), hi)]

\* one of the three calls never returns
trialHangs(offs) == \E i \in 1..3 : ~offs[i].returns

\* line 135: all([offset == offsets[0] for offset in offsets])
allEqual(offs) == \A i \in 1..3 : offs[i].value = offs[1].value

\* faulty variant: the computed offset taken on every trial
chosenOffset_computed(offs, ntries, trial) == offs[1].value

\* line 137: offsets[0] if tries == 0 else trialoffset
chosenOffset(offs, ntries, trial) ==
    IF ntries = 0 THEN offs[1].value ELSE trial

\* faulty variant: the last pitch returned without its octave shift
successReturn_unshifted(ps, off, nums) == <<TRUE, ps[3], nums[3]>>

\* line 138: success, midinums[2] + 12*t.offset, t.nums[2]
successReturn(ps, off, nums) == <<TRUE, ps[3] + 12 * off, nums[3]>>

\* faulty variant: one retry fewer
mayRetry_fewer(ntries) == ntries < 2

\* line 140: tries < 3
mayRetry(ntries) == ntries < 3

\* line 142: offsets[tries]
nextTrialOffset(offs, ntries) == offs[ntries + 1].value

----------------------------------------------------------------------------
(* Spec: constrain2 over a list of Triples, as etude() calls it *)

\* the windows tried: the command line's default, the window of the tests,
\* a high one, one of an octave and one narrower than an octave
Windows == {<<36, 84>>, <<48, 72>>, <<72, 127>>, <<55, 66>>, <<60, 66>>}

KeyNums == 0..11

\* the degree tuples test_constrain2 builds its Triples from
TestNums ==
    {<<1, 4, 7>>, <<5, 3, 1>>, <<7, 4, 1>>, <<1, 5, 2>>, <<2, 1, 5>>,
     <<1, 2, 3>>, <<1, 3, 5>>}

RECURSIVE ListsOver(_, _)
\* the lists of exactly n members of S
ListsOver(S, n) ==
    IF n = 0 THEN {<<>>}
    ELSE {Append(l, x) : l \in ListsOver(S, n - 1), x \in S}

\* the lists handed to constrain2: any one Triple, or up to MaxTriples of
\* the tests' Triples; every member is an object of its own
TripleLists ==
    {<<Triple(n)>> : n \in AllNums} \cup
    UNION {ListsOver({Triple(n) : n \in TestNums}, k) : k \in 0..MaxTriples}

unusedInSpec == <<pitch, offset12, call>>

Init ==
    /\ \E w \in Windows : mlo = w[1] /\ mhi = w[2]
    /\ keynum \in KeyNums
    /\ harmonic \in BOOLEAN
    /\ triples \in TripleLists
    /\ idx = 1
    /\ m = None /\ d = None /\ m0 = None /\ d0 = None
    /\ tries = 0 /\ trialoffset = 0
    /\ ret = <<FALSE, None, None>>
    /\ entryOffset = 0
    /\ calls = <<>>
    /\ pass = 1
    /\ pc = "constrain2"
    /\ pitch = 0 /\ offset12 = 0 /\ call = <<>>

\* line 153: m, d = midiFirst(keynum, harmonic)
Constrain2Start ==
    /\ pc = "constrain2"
    /\ m' = midiFirst(keynum, harmonic)[1]
    /\ d' = midiFirst(keynum, harmonic)[2]
    /\ idx' = 1
    /\ calls' = <<>>
    /\ pc' = "for"
    /\ UNCHANGED <<mlo, mhi, keynum, harmonic, triples, m0, d0, tries,
                   trialoffset, ret, entryOffset, pass, unusedInSpec>>

\* lines 154-155, 119-121: the next Triple of the list; computeTripleOffset
\* is entered with the continuity state
CallComputeTripleOffset ==
    /\ pc = "for"
    /\ idx <= Len(triples)
    /\ m0' = m
    /\ d0' = d
    /\ trialoffset' = 0
    /\ tries' = 0
    /\ entryOffset' = triples[idx].offset
    /\ calls' = Append(calls, <<idx, m, d>>)
    /\ pc' = "trial"
    /\ UNCHANGED <<mlo, mhi, keynum, harmonic, triples, idx, m, d, ret, pass,
                   unusedInSpec>>

\* line 154: the list is exhausted
Constrain2Done ==
    /\ pc = "for"
    /\ idx > Len(triples)
    /\ pc' = "done"
    /\ UNCHANGED <<mlo, mhi, keynum, harmonic, triples, idx, m, d, m0, d0,
                   tries, trialoffset, ret, entryOffset, calls, pass,
                   unusedInSpec>>

\* lines 131-133: a computeOctaveOffset call of this trial loops for ever
TrialHang ==
    /\ pc = "trial"
    /\ LET ps == midinums(m0, d0, triples[idx].nums, harmonic)
           offs == trialOffsets(ps, mlo, mhi, trialoffset)
       IN  trialHangs(offs)
    /\ pc' = "hung"
    /\ UNCHANGED <<mlo, mhi, keynum, harmonic, triples, idx, m, d, m0, d0,
                   tries, trialoffset, ret, entryOffset, calls, pass,
                   unusedInSpec>>

\* lines 123-138: a trial whose three offsets agree
TrialSuccess ==
    /\ pc = "trial"
    /\ LET ps == midinums(m0, d0, triples[idx].nums, harmonic)
           offs == trialOffsets(ps, mlo, mhi, trialoffset)
           off == chosenOffset(offs, tries, trialoffset)
       IN  /\ ~trialHangs(offs)
           /\ allEqual(offs)
           /\ triples' = [triples EXCEPT ![idx].offset = off]
           /\ ret' = successReturn(ps, off, triples[idx].nums)
    /\ pc' = "returned"
    /\ UNCHANGED <<mlo, mhi, keynum, harmonic, idx, m, d, m0, d0, tries,
                   trialoffset, entryOffset, calls, pass, unusedInSpec>>

\* faulty variant: a retry that also stores the trial offset in the Triple
TrialRetry_stores ==
    /\ pc = "trial"
    /\ LET ps == midinums(m0, d0, triples[idx].nums, harmonic)
           offs == trialOffsets(ps, mlo, mhi, trialoffset)
       IN  /\ ~trialHangs(offs)
           /\ ~allEqual(offs)
           /\ mayRetry(tries)
           /\ trialoffset' = nextTrialOffset(offs, tries)
           /\ triples' = [triples EXCEPT
                            ![idx].offset = nextTrialOffset(offs, tries)]
    /\ tries' = tries + 1
    /\ UNCHANGED <<mlo, mhi, keynum, harmonic, idx, m, d, m0, d0, pc,
                   ret, entryOffset, calls, pass, unusedInSpec>>

\* lines 140-144: a trial whose offsets disagree, with retries left
TrialRetry ==
    /\ pc = "trial"
    /\ LET ps == midinums(m0, d0, triples[idx].nums, harmonic)
           offs == trialOffsets(ps, mlo, mhi, trialoffset)
       IN  /\ ~trialHangs(offs)
           /\ ~allEqual(offs)
           /\ mayRetry(tries)
           /\ trialoffset' = nextTrialOffset(offs, tries)
    /\ tries' = tries + 1
    /\ UNCHANGED <<mlo, mhi, keynum, harmonic, triples, idx, m, d, m0, d0, pc,
                   ret, entryOffset, calls, pass, unusedInSpec>>

\* lines 145-146: the last trial's offsets disagree: failure
TrialFail ==
    /\ pc = "trial"
    /\ LET ps == midinums(m0, d0, triples[idx].nums, harmonic)
           offs == trialOffsets(ps, mlo, mhi, trialoffset)
       IN  /\ ~trialHangs(offs)
           /\ ~allEqual(offs)
           /\ ~mayRetry(tries)
    /\ ret' = <<FALSE, None, None>>
    /\ pc' = "returned"
    /\ UNCHANGED <<mlo, mhi, keynum, harmonic, triples, idx, m, d, m0, d0,
                   tries, trialoffset, entryOffset, calls, pass, unusedInSpec>>

\* lines 155-156: success, m, d = <the result>; assert success
AssertSuccess ==
    /\ pc = "returned"
    /\ m' = ret[2]
    /\ d' = ret[3]
    /\ IF ret[1]
       THEN pc' = "for" /\ idx' = idx + 1
       ELSE pc' = "AssertionError" /\ idx' = idx
    /\ UNCHANGED <<mlo, mhi, keynum, harmonic, triples, m0, d0, tries,
                   trialoffset, ret, entryOffset, calls, pass, unusedInSpec>>

\* bins() and mkEtudes: a Triple that holds degree 5 is also in a harmonic
\* bin, which a later etude(..., hminor=True) places again
hasFive(t) == \E i \in 1..3 : t.nums[i] = 5

\* lines 333-335: after a plain etude, the harmonic etude over the same
\* Triple objects that hold degree 5
EtudeHarmonic ==
    /\ pc = "done"
    /\ pass = 1
    /\ ~harmonic
    /\ harmonic' = TRUE
    /\ triples' = SelectSeq(triples, hasFive)
    /\ pass' = 2
    /\ calls' = <<>>
    /\ pc' = "constrain2"
    /\ UNCHANGED <<mlo, mhi, keynum, idx, m, d, m0, d0, tries, trialoffset,
                   ret, entryOffset, unusedInSpec>>

Next ==
    \/ Constrain2Start
    \/ CallComputeTripleOffset
    \/ Constrain2Done
    \/ TrialHang
    \/ TrialSuccess
    \/ TrialRetry
    \/ TrialFail
    \/ AssertSuccess
    \/ EtudeHarmonic

Spec == Init /\ [][Next]_vars

\* the three chained pitches of the running or returned call
callPitches == midinums(m0, d0, triples[idx].nums, harmonic)

\* one octave offset k places all three pitches in the window
commonOffsetExists ==
    \E k \in -12..12 :
        \A i \in 1..3 : InWindow(mlo, callPitches[i] + 12 * k, mhi)

\* C1: when computeTripleOffset returns success, the offset stored in
\* t.offset places all three chained pitches in [mlo, mhi], the returned
\* pitch is the third pitch plus 12*t.offset and the returned degree is the
\* Triple's third degree, on whichever trial success is declared.
C1_SuccessPlacesInWindow ==
    (pc = "returned" /\ ret[1]) =>
        LET t == triples[idx]
        IN  /\ \A i \in 1..3 :
                  InWindow(mlo, callPitches[i] + 12 * t.offset, mhi)
            /\ ret[2] = callPitches[3] + 12 * t.offset
            /\ ret[3] = t.nums[3]

\* success was declared on the last trial, with the offset taken from a
\* non-zero trialoffset
C1_Witness ==
    /\ pc = "returned"
    /\ ret[1]
    /\ tries = 3
    /\ trialoffset # 0
    /\ triples[idx].offset = trialoffset

\* C2: computeTripleOffset fails, and constrain2 aborts, only if no octave
\* offset k places all three chained pitches in the window.
C2_FailureOnlyIfNoOffset ==
    ((pc = "returned" /\ ~ret[1]) \/ pc = "AssertionError")
        => ~commonOffsetExists

\* C5: constrain2 places the Triples in list order and threads continuity:
\* the first call gets midiFirst(keynum, harmonic), and the call for Triple
\* i+1 gets Triple i's third pitch shifted by 12 times its assigned offset,
\* with its third degree.
C5_ContinuityThreaded ==
    \A i \in 1..Len(calls) :
        /\ calls[i][1] = i
        /\ IF i = 1
           THEN <<calls[i][2], calls[i][3]>> = midiFirst(keynum, harmonic)
           ELSE LET prev == triples[i - 1]
                    ps == midinums(calls[i - 1][2], calls[i - 1][3],
                                   prev.nums, harmonic)
                IN  /\ calls[i][2] = ps[3] + 12 * prev.offset
                    /\ calls[i][3] = prev.nums[3]

\* a second Triple is being placed after a first that was shifted
C5_Witness ==
    /\ Len(calls) = 2
    /\ pc = "trial"
    /\ triples[1].offset # 0
    /\ pass = 1

\* C6: computeTripleOffset makes at most 4 trials (tries 0..3); when none
\* finds the three offsets equal it returns (False, None, None) and t.offset
\* has the value it had before the call.
C6_FailureLeavesOffset ==
    /\ tries \in 0..3
    /\ (pc = "trial" /\ tries > 0) => triples[idx].offset = entryOffset
    /\ (pc = "returned" /\ ~ret[1]) =>
          /\ tries = 3
          /\ ret = <<FALSE, None, None>>
          /\ triples[idx].offset = entryOffset

\* a call failed on a Triple that an earlier pass had given an offset
C6_Witness ==
    /\ pc = "returned"
    /\ ~ret[1]
    /\ entryOffset # 0
    /\ trialoffset # entryOffset

----------------------------------------------------------------------------
(* WalkSpec: constrain2 over a list of any length.  The for loop never    *)
(* looks ahead in the list and never reads a placed Triple again, so the   *)
(* next Triple is drawn when the loop reaches it and the placed ones are   *)
(* not kept: the state is the continuity state and the running call.       *)

\* the windows walked: the command line's default, the window of the tests,
\* one of an octave and one narrower than an octave
WalkWindows == {<<36, 84>>, <<48, 72>>, <<55, 66>>, <<60, 66>>}

\* the Triples of the bin an etude is made of: mkEtudes makes the harmonic
\* etudes of the bins whose Triples all hold degree 5
binNums(harm) ==
    IF harm THEN {n \in AllNums : \E i \in 1..3 : n[i] = 5} ELSE AllNums

WalkInit ==
    /\ \E w \in WalkWindows : mlo = w[1] /\ mhi = w[2]
    /\ keynum \in KeyNums
    /\ harmonic \in BOOLEAN
    /\ triples = <<>>
    /\ idx = 1
    /\ m = None /\ d = None /\ m0 = None /\ d0 = None
    /\ tries = 0 /\ trialoffset = 0
    /\ ret = <<FALSE, None, None>>
    /\ entryOffset = 0
    /\ calls = <<>>
    /\ pass = 1
    /\ pc = "constrain2"
    /\ pitch = 0 /\ offset12 = 0 /\ call = <<>>

\* lines 154-155, 119-121: the list's next Triple, fresh from its
\* constructor; computeTripleOffset is entered with the continuity state
WalkCall ==
    /\ pc = "for"
    /\ \E n \in binNums(harmonic) : triples' = <<Triple(n)>>
    /\ m0' = m
    /\ d0' = d
    /\ trialoffset' = 0
    /\ tries' = 0
    /\ entryOffset' = 0
    /\ pc' = "trial"
    /\ UNCHANGED <<mlo, mhi, keynum, harmonic, idx, m, d, ret, calls, pass,
                   unusedInSpec>>

\* line 154: the list is exhausted
WalkDone ==
    /\ pc = "for"
    /\ pc' = "done"
    /\ UNCHANGED <<mlo, mhi, keynum, harmonic, triples, idx, m, d, m0, d0,
                   tries, trialoffset, ret, entryOffset, calls, pass,
                   unusedInSpec>>

\* lines 155-156: success, m, d = <the result>; assert success.  The frame
\* of the call is gone and the placed Triple is not kept.
WalkAssert ==
    /\ pc = "returned"
    /\ m' = ret[2]
    /\ d' = ret[3]
    /\ pc' = IF ret[1] THEN "for" ELSE "AssertionError"
    /\ triples' = <<>>
    /\ m0' = None /\ d0' = None
    /\ tries' = 0 /\ trialoffset' = 0
    /\ ret' = <<FALSE, None, None>>
    /\ UNCHANGED <<mlo, mhi, keynum, harmonic, idx, entryOffset, calls, pass,
                   unusedInSpec>>

WalkNext ==
    \/ Constrain2Start
    \/ WalkCall
    \/ WalkDone
    \/ TrialHang
    \/ TrialSuccess
    \/ TrialRetry
    \/ TrialFail
    \/ WalkAssert

WalkSpec == WalkInit /\ [][WalkNext]_vars

\* the window is the command line's default
defaultWindow == mlo = 36 /\ mhi = 84

\* C11: with the default window [36, 84], for every key number and every
\* sequence of Triples of distinct degrees (harmonic unset, or set with
\* every Triple holding degree 5), every continuity state constrain2
\* reaches has its pitch inside the window, and from each of them
\* computeTripleOffset returns success for every next Triple: it neither
\* fails nor loops for ever, and the assert of constrain2 never fails.
C11_DefaultWindowNeverAborts ==
    defaultWindow =>
        /\ pc \notin {"AssertionError", "hung"}
        /\ pc \in {"for", "trial", "returned", "done"} => InWindow(36, m, 84)
        /\ pc = "returned" => ret[1]
        /\ (pc = "returned" /\ ret[1]) => InWindow(36, ret[2], 84)

\* in the default window a Triple was placed two octaves down on the last
\* trial, from a continuity state that earlier placements had led to
C11_Witness ==
    /\ defaultWindow
    /\ pc = "returned"
    /\ ret[1]
    /\ tries = 3
    /\ triples[1].offset = -2
    /\ <<m0, d0>> # midiFirst(keynum, harmonic)

============================================================================
